---- MODULE Spec2Model ----
(***************************************************************************)
(* Job execution and progress streaming of the manim runner:               *)
(*   src/runner.py  extract_log, run_and_upload, the subscribers registry  *)
(*   src/app.py     the /run handler and the /render/logs/stream generator *)
(*                                                                         *)
(* Text is modelled as a sequence of atoms.  An atom is either one of the  *)
(* keywords the code searches for, a single character, or a fixed phrase;  *)
(* no keyword can arise by concatenating other atoms, so substring tests   *)
(* and the regular expressions of extract_log are computed atom-wise.      *)
(*                                                                         *)
(* The handlers run on one event loop: an action is the code between two   *)
(* suspensions.  Spec puts two streams next to one job; SpecJob puts one   *)
(* stream next to one job and varies everything the job depends on;        *)
(* SpecLog gives the job an arbitrary output line; SpecFair and SpecLive   *)
(* add the fairness of the event loop to two streams and to one stream.    *)
(***************************************************************************)
EXTENDS Integers, Sequences, FiniteSets, TLC

\* ------------------------------------------------------------------ bounds
MaxLines == 1        \* output lines the subprocess writes before EOF
MaxKeepalive == 1    \* idle timeouts of the streams, in total
MaxFaults == 1       \* exceptions inside the stream loops, in total
MaxFiles == 1        \* files present when the artifact is searched
MaxChunks == 3       \* pieces an arbitrary output line is made of

\* ------------------------------------------------------------------- text
Digits == {"3", "4", "7"}

Contains(line, tok) == \E i \in DOMAIN line : line[i] = tok

IsDigit(t) == t \in Digits

\* str.lower() on one atom
LowerTok(t) ==
  CASE t = "Error" -> "error"
    [] t = "ERROR" -> "error"
    [] t = "Exception" -> "exception"
    [] t = "Played" -> "played"
    [] t = "Animation" -> "animation"
    [] t = "Partial" -> "partial"
    [] t = "File ready at" -> "file ready at"
    [] t = "Rendered ArchitectureDiagram" -> "rendered architecturediagram"
    [] t = "Video generation completed!" -> "video generation completed!"
    [] t = "Starting video generation..." -> "starting video generation..."
    [] t = "Uploading video..." -> "uploading video..."
    [] t = "Final video ready!" -> "final video ready!"
    [] t = "Rendering complete!" -> "rendering complete!"
    [] t = "Error occurred" -> "error occurred"
    [] OTHER -> t

Lower(s) == [i \in DOMAIN s |-> LowerTok(s[i])]

\* str.strip(): drop leading and trailing blanks
RECURSIVE LStrip(_)
LStrip(s) == IF s # <<>> /\ Head(s) = " " THEN LStrip(Tail(s)) ELSE s

RECURSIVE RStrip(_)
RStrip(s) ==
  IF s # <<>> /\ s[Len(s)] = " " THEN RStrip(SubSeq(s, 1, Len(s) - 1)) ELSE s

Strip(s) == RStrip(LStrip(s))

\* end of the maximal run of digits that starts at k (k - 1 when line[k] is
\* no digit): what a greedy (\d+) consumes
RECURSIVE DigitRunEnd(_, _)
DigitRunEnd(line, k) ==
  IF k <= Len(line) /\ IsDigit(line[k]) THEN DigitRunEnd(line, k + 1) ELSE k - 1

\* positions where "Animation (\d+)" matches
AnimAt(line) ==
  {i \in DOMAIN line : /\ line[i] = "Animation"
                       /\ i + 2 <= Len(line)
                       /\ line[i + 1] = " "
                       /\ IsDigit(line[i + 2])}

\* starts j > from of a (\d+)%\| match
PctAt(line, from) ==
  {j \in DOMAIN line : /\ j > from
                       /\ IsDigit(line[j])
                       /\ LET e == DigitRunEnd(line, j)
                          IN /\ e + 2 <= Len(line)
                             /\ line[e + 1] = "%"
                             /\ line[e + 2] = "|"}

\* positions where "Animation (\d+):.*?(\d+)%\|" matches
ProgressAt(line) ==
  {i \in AnimAt(line) :
     LET e == DigitRunEnd(line, i + 2)
     IN /\ e + 1 <= Len(line)
        /\ line[e + 1] = ":"
        /\ PctAt(line, e + 1) # {}}

Min(S) == CHOOSE x \in S : \A y \in S : x <= y

None == <<>>     \* extract_log's None; every message it returns is non-empty

\* variant: a line with "Animation" and "Partial" but no number is handed
\* on to the rules that follow
extract_logFallThrough(l) ==
  IF Contains(l, "Animation") /\ Contains(l, "Partial") /\ AnimAt(l) # {} THEN
    LET i == Min(AnimAt(l))
    IN <<"Animation", " ">> \o SubSeq(l, i + 2, DigitRunEnd(l, i + 2))
         \o <<" ", "loaded">>
  ELSE IF ProgressAt(l) # {} THEN
    LET i == Min(ProgressAt(l))
        e == DigitRunEnd(l, i + 2)
        j == Min(PctAt(l, e + 1))
    IN <<"Animation", " ">> \o SubSeq(l, i + 2, e)
         \o <<" ", "progress", ":", " ">>
         \o SubSeq(l, j, DigitRunEnd(l, j)) \o <<"%">>
  ELSE IF Contains(l, "File ready at") THEN <<"Final video ready!">>
  ELSE IF Contains(l, "Rendered ArchitectureDiagram") THEN <<"Rendering complete!">>
  ELSE IF Contains(l, "Played") THEN Strip(l)
  ELSE IF Contains(l, "ERROR") \/ Contains(l, "Exception") THEN <<"Error occurred">>
  ELSE <<>>

\* src/runner.py extract_log
extract_log(line) ==
  IF Contains(line, "Animation") /\ Contains(line, "Partial") THEN
    IF AnimAt(line) # {}
    THEN LET i == Min(AnimAt(line))
         IN <<"Animation", " ">> \o SubSeq(line, i + 2, DigitRunEnd(line, i + 2))
              \o <<" ", "loaded">>
    ELSE None
  ELSE IF ProgressAt(line) # {} THEN
    LET i == Min(ProgressAt(line))
        e == DigitRunEnd(line, i + 2)
        j == Min(PctAt(line, e + 1))
    IN <<"Animation", " ">> \o SubSeq(line, i + 2, e)
         \o <<" ", "progress", ":", " ">>
         \o SubSeq(line, j, DigitRunEnd(line, j)) \o <<"%">>
  ELSE IF Contains(line, "File ready at") THEN <<"Final video ready!">>
  ELSE IF Contains(line, "Rendered ArchitectureDiagram") THEN <<"Rendering complete!">>
  ELSE IF Contains(line, "Played") THEN Strip(line)
  ELSE IF Contains(line, "ERROR") \/ Contains(line, "Exception") THEN <<"Error occurred">>
  ELSE None


\* ------------------------------------------------------------- messages
StartMsg == <<"Starting video generation...">>
UploadingMsg == <<"Uploading video...">>
CompletedMsg == <<"Video generation completed!">>

\* str(e) of the exception that reaches the outer guard of run_and_upload
ErrText(e) ==
  CASE e = "spawn" -> "No such file or directory: manim"
    [] e = "exit" -> "Command returned non-zero exit status"
    [] e = "missing" -> "No video file was generated"
    [] e = "upload" -> "upload request failed"
    [] OTHER -> "unknown"

\* f"Error: {str(e)}"
ErrorMsg(e) == <<"Error", ":", " ", ErrText(e)>>

\* app.py: msg.strip().lower() == "video generation completed!"
IsCompletion(msg) == Lower(Strip(msg)) = <<"video generation completed!">>

\* app.py: msg.lower().startswith("error:")
IsErrorMsg(msg) ==
  /\ Len(msg) >= 2
  /\ LowerTok(msg[1]) = "error"
  /\ msg[2] = ":"

IsTerminal(msg) == IsCompletion(msg) \/ IsErrorMsg(msg)

\* ----------------------------------------------------------- the system
JobIds == {"j1", "j2"}      \* conversation ids in use
Streams == {"s1", "s2"}     \* calls of /render/logs/stream
RunIds == {"", "j1"}        \* conversation_id of the /run request
NoQueue == "none"           \* the id is not a key of subscribers

\* raw lines the rendering subprocess may write
JobLines ==
  { <<"Animation", " ", "3", ":", " ", "4", "7", "%", "|">>,
    <<"Error", ":", " ", "Played", " ", "3", " ">>,
    <<"x">> }

\* the places a .mp4 file can be, relative to the scratch directory
Fallbacks ==
  << "id.mp4",
     "media/videos/id.mp4",
     "media/videos/480p15/id.mp4",
     "media/videos/720p30/id.mp4",
     "media/videos/1080p60/id.mp4" >>

\* the files the subprocess may leave behind
Paths ==
  { "id.mp4", "media/videos/480p15/id.mp4", "media/videos/j1/480p15/id.mp4",
    "media/videos/j1/480p15/id.png", "other.mp4" }

InMediaDir(p) == p \notin {"id.mp4", "other.mp4"}

\* file.endswith('.mp4')
IsMp4(p) == p # "media/videos/j1/480p15/id.png"

\* number of directories between media_dir and the file
Depth(p) ==
  CASE p = "media/videos/id.mp4" -> 1
    [] p = "media/videos/j1/480p15/id.mp4" -> 3
    [] p = "media/videos/j1/480p15/id.png" -> 3
    [] OTHER -> 2

VARIABLES
  subscribers,  \* runner.subscribers: job id -> the stream whose queue is registered
  queue,        \* stream -> contents of the asyncio.Queue it created
  spc,          \* stream -> position of its event_gen generator
  sid,          \* stream -> conversationId of the request
  fwd,          \* stream -> frames sent to the client so far
  epc,          \* position of the /run request
  cid,          \* its conversation_id
  nlines,       \* lines read from the subprocess so far
  line,         \* run_and_upload's line: the last line read, stripped
  log_message,  \* run_and_upload's log_message: what extract_log made of it
  env,          \* history: how create_subprocess_exec and the upload ended
  rcode,        \* return code of the subprocess (-1: not exited yet)
  located,      \* history: some search location held a video when searched
  video,        \* video_path, "" while none is selected
  err,          \* the exception that reached the outer guard, "none" if none
  scratch,      \* the TemporaryDirectory exists
  uploaded,     \* upload_to_supabase has been called
  notified,     \* the callback request: "no" (SPRING_CALLBACK_URL unset), "ok", "failed"
  status,       \* HTTP status of the /run response, 0 while pending
  pub           \* history: every publish step of run_and_upload, in order

vars == <<subscribers, queue, spc, sid, fwd, epc, cid, nlines, line,
          log_message, env, rcode, located, video, err, scratch, uploaded,
          notified, status, pub>>

streamVars == <<spc, sid, fwd>>
jobVars == <<epc, cid, nlines, line, log_message, env, rcode, located, video,
             err, scratch, uploaded, notified, status, pub>>

Init ==
  /\ subscribers = [j \in JobIds |-> NoQueue]
  /\ queue = [s \in Streams |-> <<>>]
  /\ spc = [s \in Streams |-> "idle"]
  /\ sid = [s \in Streams |-> ""]
  /\ fwd = [s \in Streams |-> <<>>]
  /\ epc = "idle"
  /\ cid = ""
  /\ nlines = 0
  /\ line = <<>>
  /\ log_message = None
  /\ env = [spawn |-> "", upload |-> ""]
  /\ rcode = -1
  /\ located = FALSE
  /\ video = ""
  /\ err = "none"
  /\ scratch = FALSE
  /\ uploaded = FALSE
  /\ notified = "no"
  /\ status = 0
  /\ pub = <<>>

\* ------------------------------------------------------------- registry
\* variant: the message is put first in the queue
putFront(subs, qs, j, entry) ==
  IF subs[j] # NoQueue THEN [qs EXCEPT ![subs[j]] = <<entry>> \o @] ELSE qs

\* variant: the message goes to every stream open on the id, registered or not
putAll(subs, qs, j, entry) ==
  [s \in Streams |->
     IF sid[s] = j /\ spc[s] \in {"waiting", "sent"} THEN Append(qs[s], entry) ELSE qs[s]]

\* "if conversation_id in subscribers: await subscribers[conversation_id].put(m)"
\* The queues are unbounded, so put() never suspends.
put(subs, qs, j, entry) ==
  IF subs[j] # NoQueue THEN [qs EXCEPT ![subs[j]] = Append(@, entry)] ELSE qs

\* variant: the finally clause leaves the registry alone
popNothing(subs, j) == subs

\* subscribers.pop(conversationId, None)
pop(subs, j) == [subs EXCEPT ![j] = NoQueue]

\* variant: a queue that is registered already is kept
registerIfAbsent(subs, s, j) ==
  IF subs[j] # NoQueue THEN subs ELSE [subs EXCEPT ![j] = s]

\* q = asyncio.Queue(); subscribers[conversationId] = q
register(subs, s, j) == [subs EXCEPT ![j] = s]

\* One publish step of run_and_upload at the given site, applied to the
\* queues st.q and the history st.p.  The code between two suspensions runs
\* without interleaving on the event loop, so an action chains these steps.
Say(st, j, msg, site) ==
  [q |-> put(subscribers, st.q, j, [msg |-> msg, n |-> Len(st.p) + 1]),
   p |-> Append(st.p, [msg |-> msg, site |-> site, to |-> subscribers[j]])]

\* variant: the directory is removed on the normal path only
WithExitLeak(raised) == raised

\* tempfile.TemporaryDirectory: whether the directory still exists once the
\* with block is left, normally or by an exception
WithExit(raised) == FALSE

\* the exception e leaves the with block and reaches the except clause of
\* run_and_upload (209-219), then the one of run (85-87)
Fails(st, e) ==
  LET g == Say(st, cid, ErrorMsg(e), "guard")
  IN /\ queue' = g.q
     /\ pub' = g.p
     /\ err' = e
     /\ scratch' = WithExit(TRUE)
     /\ epc' = "failed"
     /\ status' = 500
     /\ line' = <<>>
     /\ log_message' = None

\* "return video_url" leaves the with block; run answers 200
Returns(st) ==
  /\ queue' = st.q
  /\ pub' = st.p
  /\ scratch' = WithExit(FALSE)
  /\ epc' = "returned"
  /\ status' = 200
  /\ line' = <<>>
  /\ log_message' = None
  /\ UNCHANGED err

\* ---------------------------------------------------- artifact search
\* os.walk(media_dir): the .mp4 files below media_dir
Walk(files) == {p \in files : InMediaDir(p) /\ IsMp4(p)}

\* candidates for video_files[0] after the walk: os.walk is top-down, so a
\* file nearer to media_dir comes first; the order of sibling directories is
\* that of the directory listing, which is arbitrary
WalkFirst(files) ==
  {p \in Walk(files) : \A q \in Walk(files) : Depth(p) <= Depth(q)}

\* the first of alt_locations that exists
AltFirst(files) ==
  LET hits == {i \in DOMAIN Fallbacks : Fallbacks[i] \in files}
  IN IF hits = {} THEN {} ELSE {Fallbacks[Min(hits)]}

\* variant: the fallback paths are not probed
FindVideoWalkOnly(files) == WalkFirst(files)

\* what video_files[0] can be; empty when "not video_files"
FindVideo(files) ==
  IF Walk(files) # {} THEN WalkFirst(files) ELSE AltFirst(files)

\* every place the search is meant to look at: the videos below media_dir
\* and the fallback paths
SearchLocations ==
  {p \in Paths : InMediaDir(p) /\ IsMp4(p)} \cup {Fallbacks[i] : i \in DOMAIN Fallbacks}

\* variant: only a signal counts as a failure
ExitFailedNegative(rc) == rc < 0

\* "if return_code != 0: raise"
ExitFailed(rc) == rc # 0

ReturnCodes == {0, 2}

\* outcomes of the callback: SPRING_CALLBACK_URL unset, request ok, request failed
Notifications == {"no", "ok", "failed"}

\* ------------------------------------------------------------ /run
\* app.py 67-77 and runner.py 82-118: the field check, the scratch directory,
\* the start notice; then create_subprocess_exec suspends
Submit(c, codeGiven) ==
  /\ epc = "idle"
  /\ cid' = c
  /\ IF c = "" \/ ~codeGiven
     THEN \* HTTPException(400) is raised inside the try and caught by the
          \* handler's own "except Exception", which raises HTTPException(500)
          /\ epc' = "failed"
          /\ status' = 500
          /\ err' = "client"
          /\ UNCHANGED <<scratch, queue, pub>>
     ELSE LET st == Say([q |-> queue, p |-> pub], c, StartMsg, "start")
          IN /\ queue' = st.q
             /\ pub' = st.p
             /\ epc' = "spawn"
             /\ scratch' = TRUE
             /\ UNCHANGED <<status, err>>
  /\ UNCHANGED <<subscribers, streamVars, nlines, line, log_message, env, rcode,
                 located, video, uploaded, notified>>

\* runner.py 113-118: create_subprocess_exec returns or raises
Spawn(ok) ==
  /\ epc = "spawn"
  /\ env' = [env EXCEPT !.spawn = IF ok THEN "ok" ELSE "failed"]
  /\ IF ok
     THEN /\ epc' = "reading"
          /\ UNCHANGED <<queue, pub, err, scratch, status, line, log_message>>
     ELSE Fails([q |-> queue, p |-> pub], "spawn")
  /\ UNCHANGED <<subscribers, streamVars, cid, nlines, rcode, located, video,
                 uploaded, notified>>

\* runner.py 121-135: one line of output
ReadLine(raw) ==
  /\ epc = "reading"
  /\ nlines < MaxLines
  /\ nlines' = nlines + 1
  /\ line' = Strip(raw)
  /\ log_message' = extract_log(line')
  /\ IF log_message' # None
     THEN LET st == Say([q |-> queue, p |-> pub], cid, log_message', "progress")
          IN queue' = st.q /\ pub' = st.p
     ELSE UNCHANGED <<queue, pub>>
  /\ UNCHANGED <<subscribers, streamVars, epc, cid, env, rcode, located, video,
                 err, scratch, uploaded, notified, status>>

\* runner.py 122-124: end of the output; process.wait() suspends
ReadEOF ==
  /\ epc = "reading"
  /\ epc' = "exit"
  /\ UNCHANGED <<subscribers, queue, streamVars, cid, nlines, line, log_message,
                 env, rcode, located, video, err, scratch, uploaded, notified,
                 status, pub>>

\* runner.py 138-219 and app.py 77-87: the subprocess has exited.  Nothing
\* suspends from here on (the upload and the callback are blocking calls):
\* the return code, the search, the upload notice, the upload, the
\* completion notice, the callback and the answer of /run are one step.
ProcessExit(rc, files, uploadOk, note) ==
  /\ epc = "exit"
  /\ rcode' = rc
  /\ LET st0 == [q |-> queue, p |-> pub]
     IN IF ExitFailed(rc)
        THEN /\ Fails(st0, "exit")
             /\ UNCHANGED <<located, video, uploaded, notified, env>>
        ELSE /\ located' = (files \cap SearchLocations # {})
             /\ IF FindVideo(files) = {}
                THEN /\ Fails(st0, "missing")
                     /\ UNCHANGED <<video, uploaded, notified, env>>
                ELSE LET st1 == Say(st0, cid, UploadingMsg, "uploading")
                     IN /\ video' \in FindVideo(files)
                        /\ uploaded' = TRUE
                        /\ env' = [env EXCEPT !.upload = IF uploadOk THEN "ok" ELSE "failed"]
                        /\ IF ~uploadOk
                           THEN Fails(st1, "upload") /\ UNCHANGED notified
                           ELSE /\ Returns(Say(st1, cid, CompletedMsg, "completed"))
                                /\ notified' = note
  /\ UNCHANGED <<subscribers, streamVars, cid, nlines>>

\* ------------------------------------------------- /render/logs/stream
DataFrame(e) == [kind |-> "data", msg |-> e.msg, n |-> e.n]
KeepaliveFrame == [kind |-> "keepalive", msg |-> <<>>, n |-> 0]
FaultFrame == [kind |-> "fault", msg |-> <<>>, n |-> 0]

Frames(kind) ==
  {x \in Streams \X (1..(MaxLines + MaxKeepalive + MaxFaults + 4)) :
     x[2] \in DOMAIN fwd[x[1]] /\ fwd[x[1]][x[2]].kind = kind}

\* app.py 25-26.  The streams are interchangeable: s1 is the first to open.
StreamOpen(s, j) ==
  /\ spc[s] = "idle"
  /\ s = "s2" => spc["s1"] # "idle"
  /\ queue' = [queue EXCEPT ![s] = <<>>]
  /\ subscribers' = register(subscribers, s, j)
  /\ sid' = [sid EXCEPT ![s] = j]
  /\ spc' = [spc EXCEPT ![s] = "waiting"]
  /\ UNCHANGED <<fwd, jobVars>>

\* variant: the completion sentinel is not recognised
StopsOnError(msg) == IsErrorMsg(msg)

\* app.py 37-43: the generator stops after this message
StopsOn(msg) == IsCompletion(msg) \/ IsErrorMsg(msg)

\* app.py 32-43: q.get() delivers the oldest message, which is sent.  After a
\* message that does not end the stream the generator goes back to q.get()
\* without touching the registry; after one that does, it is suspended at the
\* yield, with the finally clause still to run.
StreamGet(s) ==
  /\ spc[s] = "waiting"
  /\ queue[s] # <<>>
  /\ fwd' = [fwd EXCEPT ![s] = Append(@, DataFrame(Head(queue[s])))]
  /\ queue' = [queue EXCEPT ![s] = Tail(@)]
  /\ spc' = [spc EXCEPT ![s] = IF StopsOn(Head(queue[s]).msg) THEN "sent" ELSE "waiting"]
  /\ UNCHANGED <<subscribers, sid, jobVars>>

\* variant: the keepalive is the last frame of the stream
StreamTimeoutCloses(s) ==
  /\ spc[s] = "waiting"
  /\ queue[s] = <<>>
  /\ Cardinality(Frames("keepalive")) < MaxKeepalive
  /\ fwd' = [fwd EXCEPT ![s] = Append(@, KeepaliveFrame)]
  /\ spc' = [spc EXCEPT ![s] = "sent"]
  /\ UNCHANGED <<subscribers, queue, sid, jobVars>>

\* app.py 44-45: nothing arrived within 30 s
StreamTimeout(s) ==
  /\ spc[s] = "waiting"
  /\ queue[s] = <<>>
  /\ Cardinality(Frames("keepalive")) < MaxKeepalive
  /\ fwd' = [fwd EXCEPT ![s] = Append(@, KeepaliveFrame)]
  /\ UNCHANGED <<subscribers, queue, spc, sid, jobVars>>

\* app.py 46-48: an exception inside the loop; the error frame is sent
StreamFault(s) ==
  /\ spc[s] = "waiting"
  /\ Cardinality(Frames("fault")) < MaxFaults
  /\ fwd' = [fwd EXCEPT ![s] = Append(@, FaultFrame)]
  /\ spc' = [spc EXCEPT ![s] = "sent"]
  /\ UNCHANGED <<subscribers, queue, sid, jobVars>>

\* app.py 49-51: the finally clause
StreamClose(s) ==
  /\ subscribers' = pop(subscribers, sid[s])
  /\ spc' = [spc EXCEPT ![s] = "closed"]

\* the last frame has been sent: break, or the end of the except clause
StreamResume(s) ==
  /\ spc[s] = "sent"
  /\ StreamClose(s)
  /\ UNCHANGED <<queue, sid, fwd, jobVars>>

\* variant: a client that goes away takes the job of its id with it
StreamDisconnectCancels(s) ==
  /\ spc[s] \in {"waiting", "sent"}
  /\ StreamClose(s)
  /\ IF sid[s] = cid /\ epc \in {"spawn", "reading", "exit"}
     THEN /\ epc' = "failed"
          /\ err' = "cancelled"
          /\ status' = 500
          /\ scratch' = FALSE
          /\ line' = <<>>
          /\ log_message' = <<>>
          /\ UNCHANGED <<cid, nlines, env, rcode, located, video, uploaded,
                         notified, pub>>
     ELSE UNCHANGED jobVars
  /\ UNCHANGED <<queue, sid, fwd>>

\* the client goes away: the generator is closed where it is suspended
StreamDisconnect(s) ==
  /\ spc[s] \in {"waiting", "sent"}
  /\ StreamClose(s)
  /\ UNCHANGED <<queue, sid, fwd, jobVars>>

\* ---------------------------------------------------------------- /health
\* app.py 91-94: "active_streams": len(subscribers)
health_check(subs) == Cardinality({j \in JobIds : subs[j] # NoQueue})

\* --------------------------------------------------------------- system
\* the steps of the /run request, the subprocess leaving one of the given
\* sets of files and the callback ending in one of the given ways
JobStep(fileSets, notes) ==
  \/ \E c \in RunIds, g \in BOOLEAN : Submit(c, g)
  \/ \E ok \in BOOLEAN : Spawn(ok)
  \/ \E raw \in JobLines : ReadLine(raw)
  \/ ReadEOF
  \/ \E rc \in ReturnCodes \ {0} : ProcessExit(rc, {}, FALSE, "no")
  \/ \E files \in fileSets : ProcessExit(0, files, FALSE, "no")
  \/ \E files \in fileSets, note \in notes : ProcessExit(0, files, TRUE, note)

\* the steps of one stream
StreamStep(s) ==
  \/ \E j \in JobIds : StreamOpen(s, j)
  \/ StreamGet(s)
  \/ StreamTimeout(s)
  \/ StreamFault(s)
  \/ StreamResume(s)
  \/ StreamDisconnect(s)

\* what a render leaves: nothing, or the video where manim writes it
RenderOutputs == {{}, {"media/videos/j1/480p15/id.mp4"}}

\* Two streams next to one job, whose subprocess leaves a typical output.
Next ==
  \/ JobStep(RenderOutputs, {"ok"})
  \/ \E s \in Streams : StreamStep(s)

Spec == Init /\ [][Next]_vars

\* One stream next to one job, with every set of files the subprocess can
\* leave and every outcome of the callback.
NextJob ==
  \/ JobStep({files \in SUBSET Paths : Cardinality(files) <= MaxFiles}, Notifications)
  \/ StreamStep("s1")

SpecJob == Init /\ [][NextJob]_vars

\* The event loop runs every task that can run: the job goes on for as long
\* as it has a step to take, whatever the streams do.
SpecFair == Spec /\ WF_vars(JobStep(RenderOutputs, {"ok"}))

\* One stream whose client stays connected and which meets no fault, next to
\* one job; the job and the stream are both run when they can run.
NextLive ==
  \/ JobStep(RenderOutputs, Notifications)
  \/ \E j \in JobIds : StreamOpen("s1", j)
  \/ StreamGet("s1")
  \/ StreamTimeout("s1")
  \/ StreamResume("s1")

SpecLive ==
  /\ Init /\ [][NextLive]_vars
  /\ WF_vars(JobStep(RenderOutputs, Notifications))
  /\ WF_vars(StreamGet("s1"))
  /\ WF_vars(StreamResume("s1"))

\* pieces of output: the keywords of extract_log with and without what its
\* patterns look for around them, an "error:" prefix, a blank, other text
LogChunks ==
  { <<"Animation", " ", "3">>, <<"Animation">>, <<":", " ", "4", "7", "%", "|">>,
    <<"Partial">>, <<"File ready at">>, <<"Rendered ArchitectureDiagram">>,
    <<"Played">>, <<"ERROR">>, <<"Exception">>, <<"Error", ":", " ">>,
    <<" ">>, <<"x">> }

RECURSIVE Concat(_)
Concat(chunks) == IF chunks = <<>> THEN <<>> ELSE Head(chunks) \o Concat(Tail(chunks))

\* the lines made of at most MaxChunks pieces
AllLines ==
  UNION {{Concat(c) : c \in [1..n -> LogChunks]} : n \in 0..MaxChunks}

\* The job j1 with no stream, after its subprocess has been started.
InitLog ==
  /\ subscribers = [j \in JobIds |-> NoQueue]
  /\ queue = [s \in Streams |-> <<>>]
  /\ spc = [s \in Streams |-> "idle"]
  /\ sid = [s \in Streams |-> ""]
  /\ fwd = [s \in Streams |-> <<>>]
  /\ epc = "reading"
  /\ cid = "j1"
  /\ nlines = 0
  /\ line = <<>>
  /\ log_message = None
  /\ env = [spawn |-> "ok", upload |-> ""]
  /\ rcode = -1
  /\ located = FALSE
  /\ video = ""
  /\ err = "none"
  /\ scratch = TRUE
  /\ uploaded = FALSE
  /\ notified = "no"
  /\ status = 0
  /\ pub = <<[msg |-> StartMsg, site |-> "start", to |-> NoQueue]>>

\* The first line the subprocess writes is any line.
NextLog == \E raw \in AllLines : nlines = 0 /\ ReadLine(raw)

SpecLog == InitLog /\ [][NextLog]_vars

\* =============================================================== claims
\* run_and_upload was entered and has ended
Ran == epc \in {"returned", "failed"} /\ err # "client"

PubIdx(P(_)) == {i \in DOMAIN pub : P(pub[i].msg)}

Says(msg) == \E i \in DOMAIN pub : pub[i].msg = msg

LastPub == pub[Len(pub)]

IsData(f) == f.kind = "data"

\* the messages of the job a stream has forwarded, in order
Data(s) == SelectSeq(fwd[s], IsData)

Open(s) == spc[s] \in {"waiting", "sent"}

\* C1 (as claimed): a terminal message (completion sentinel or "error:"
\* prefix) is the last message the executor publishes, and an execution that
\* has ended has published one.
C1_OneTerminalLast ==
  /\ \A i \in PubIdx(IsTerminal) : i = Len(pub)
  /\ Ran => PubIdx(IsTerminal) # {}

\* C2: a successful run has published the start notice, then only classifier
\* messages, then the upload notice, then the completion sentinel; a stream
\* that got the start notice and the sentinel got exactly these messages;
\* and after forwarding the sentinel a stream sends nothing more: its next
\* step closes it.
ProgressMsgs == {extract_log(Strip(raw)) : raw \in JobLines} \ {None}

SuccessOrder ==
  /\ Len(pub) >= 3
  /\ pub[1].msg = StartMsg
  /\ pub[Len(pub) - 1].msg = UploadingMsg
  /\ pub[Len(pub)].msg = CompletedMsg
  /\ \A i \in 2..(Len(pub) - 2) :
       pub[i].site = "progress" /\ pub[i].msg \in ProgressMsgs

AttachedThroughout(s) ==
  /\ Data(s) # <<>>
  /\ Data(s)[1].n = 1
  /\ IsCompletion(Data(s)[Len(Data(s))].msg)

ForwardedCompletion(s) ==
  /\ fwd[s] # <<>>
  /\ IsData(fwd[s][Len(fwd[s])])
  /\ IsCompletion(fwd[s][Len(fwd[s])].msg)

C2_SuccessOrder ==
  /\ [](epc = "returned" =>
          /\ SuccessOrder
          /\ \A s \in Streams : AttachedThroughout(s) =>
               [i \in DOMAIN Data(s) |-> Data(s)[i].msg]
                 = [i \in DOMAIN pub |-> pub[i].msg])
  /\ [][\A s \in Streams : ForwardedCompletion(s) =>
          /\ fwd'[s] = fwd[s]
          /\ spc[s] # "waiting"
          /\ spc'[s] \in {spc[s], "closed"}]_vars

C2_Witness ==
  /\ epc = "returned"
  /\ Len(pub) = 4
  /\ \E s \in Streams :
       /\ spc[s] = "closed"
       /\ AttachedThroughout(s)
       /\ Len(fwd[s]) = 4

\* C3: what a stream forwards is, in order and without repetition, a
\* subsequence of what was published for its id, made of messages that were
\* put in this stream's queue when published; a message published while no
\* queue was registered is forwarded by no stream.
C3_InOrderAtMostOnce ==
  \A s \in Streams :
    /\ \A i \in DOMAIN Data(s) :
         /\ Data(s)[i].n \in DOMAIN pub
         /\ pub[Data(s)[i].n].msg = Data(s)[i].msg
         /\ pub[Data(s)[i].n].to = s
         /\ sid[s] = cid
    /\ \A i, k \in DOMAIN Data(s) : i < k => Data(s)[i].n < Data(s)[k].n

C3_Witness ==
  /\ \E i \in DOMAIN pub : pub[i].to = NoQueue
  /\ \E s \in Streams : Len(Data(s)) >= 2 /\ Data(s)[1].n > 1

\* C4: a step of the executor that publishes while no queue is registered
\* for the job id changes neither the registry nor any queue, and the
\* executor goes on: the start notice leads to the subprocess, a progress
\* message to the next line, the last notices to the answer of /run.
C4_SilentNoOp ==
  [][(Len(pub') > Len(pub) /\ subscribers[cid'] = NoQueue) =>
       /\ subscribers' = subscribers
       /\ queue' = queue
       /\ \A i \in (Len(pub) + 1)..Len(pub') : pub'[i].to = NoQueue
       /\ epc = "idle" => (epc' = "spawn" /\ err' = "none")
       /\ epc = "reading" => (epc' = "reading" /\ nlines' = nlines + 1 /\ err' = "none")
       /\ epc \in {"spawn", "exit"} => (epc' \in {"returned", "failed"} /\ status' # 0)]_vars

C4_Witness ==
  /\ epc = "returned"
  /\ Len(pub) = 4
  /\ \A i \in DOMAIN pub : pub[i].to = NoQueue
  /\ \E s \in Streams : spc[s] = "waiting" /\ sid[s] = cid /\ queue[s] = <<>>

\* C5: after a non-zero exit code the job has failed with status 500, its
\* last message is error-prefixed, neither the upload notice nor the
\* completion sentinel was published, no video was selected, and neither
\* the upload nor the callback was called.
C5_NonZeroExit ==
  rcode \notin {-1, 0} =>
    /\ epc = "failed"
    /\ status = 500
    /\ err = "exit"
    /\ pub # <<>> /\ IsErrorMsg(LastPub.msg) /\ LastPub.site = "guard"
    /\ ~Says(UploadingMsg)
    /\ ~Says(CompletedMsg)
    /\ video = ""
    /\ ~uploaded
    /\ notified = "no"

C5_Witness == rcode = 2 /\ epc = "failed" /\ Len(pub) = 3

\* C6: exit code 0 with no video at any search location fails the job with
\* the artifact-missing error and an error-prefixed last message, without
\* upload, upload notice or completion sentinel; and the job fails with
\* that error only when every search location was empty.
C6_ArtifactMissing ==
  /\ (rcode = 0 /\ ~located) =>
       /\ epc = "failed"
       /\ status = 500
       /\ err = "missing"
       /\ pub # <<>> /\ IsErrorMsg(LastPub.msg) /\ LastPub.site = "guard"
       /\ ~uploaded
       /\ ~Says(UploadingMsg)
       /\ ~Says(CompletedMsg)
  /\ err = "missing" => (rcode = 0 /\ ~located)

C6_Witness == err = "missing" /\ epc = "failed" /\ rcode = 0 /\ ~located

\* C7 (as claimed): when the upload fails, /run fails, exactly one
\* error-prefixed message has been published, by the outer guard and after
\* the upload notice, the completion sentinel has not, and the callback
\* was not called.
C7_UploadFailure ==
  err = "upload" =>
    /\ status = 500
    /\ PubIdx(IsErrorMsg) = {Len(pub)}
    /\ LastPub.site = "guard"
    /\ Len(pub) >= 2 /\ pub[Len(pub) - 1].msg = UploadingMsg
    /\ ~Says(CompletedMsg)
    /\ notified = "no"

\* C8 (as claimed): when the callback fails, /run still answers 200, no
\* error message has been published, and the completion sentinel is the
\* only terminal message of the job.
C8_NotificationFailure ==
  notified = "failed" =>
    /\ epc = "returned"
    /\ status = 200
    /\ err = "none"
    /\ PubIdx(IsErrorMsg) = {}
    /\ PubIdx(IsTerminal) = {Len(pub)}
    /\ LastPub.msg = CompletedMsg

\* C9: once run_and_upload has ended, by return or by exception, the
\* scratch directory no longer exists.
C9_ScratchRemoved == epc \in {"returned", "failed"} => ~scratch

C9_Witness == epc = "failed" /\ err = "upload" /\ ~scratch

\* C10: a queue registered for an id belongs to a stream that is open on
\* that id; and whenever a stream closes, no queue is registered for its id
\* afterwards.
C10_RegisteredOnlyWhileOpen ==
  /\ [](\A j \in JobIds : subscribers[j] # NoQueue =>
          Open(subscribers[j]) /\ sid[subscribers[j]] = j)
  /\ [][\A s \in Streams : (Open(s) /\ spc'[s] = "closed") =>
          subscribers'[sid[s]] = NoQueue]_vars

C10_Witness ==
  /\ spc["s1"] = "closed"
  /\ Open("s2")
  /\ sid["s1"] = sid["s2"]
  /\ subscribers[sid["s1"]] = NoQueue
  /\ fwd["s1"] # <<>>

\* the entries the step has published
Published == [i \in 1..(Len(pub') - Len(pub)) |->
               [msg |-> pub'[Len(pub) + i].msg, n |-> Len(pub) + i]]

\* C11 (as claimed): once a second stream has registered for the id of the
\* job, and for as long as it is open, every message the executor publishes
\* is put in the second stream's queue and in no other; an id never has more
\* than one queue.
C11_SecondQueueOnly ==
  [][(/\ spc["s1"] # "idle"
      /\ Open("s2")
      /\ sid["s1"] = sid["s2"]
      /\ cid = sid["s2"]
      /\ Len(pub') > Len(pub))
     => /\ queue'["s2"] = queue["s2"] \o Published
        /\ queue'["s1"] = queue["s1"]
        /\ Cardinality({s \in Streams : subscribers'[cid] = s}) <= 1]_vars

\* stream s registers for id j in this step
Registers(s, j) == spc[s] = "idle" /\ spc'[s] = "waiting" /\ sid'[s] = j

\* C12 (as claimed): registering an id that has a queue already leaves that
\* queue registered; a queue is installed only when the id has none.
C12_RegisterIdempotent ==
  [][\A s \in Streams, j \in JobIds :
       (Registers(s, j) /\ subscribers[j] # NoQueue)
       => subscribers'[j] = subscribers[j]]_vars

\* C12 (amended): registering an id always installs a new, empty queue for
\* it, whether or not the id had one; a queue that was replaced keeps its
\* pending messages and is given no further message.
C12_RegisterReplaces ==
  [][/\ \A s \in Streams, j \in JobIds :
          Registers(s, j)
          => /\ subscribers'[j] = s
             /\ queue'[s] = <<>>
             /\ \A t \in Streams \ {s} : queue'[t] = queue[t]
      /\ \A t \in Streams :
          (spc[t] # "idle" /\ subscribers[sid[t]] # t)
          => Len(queue'[t]) <= Len(queue[t])]_vars

C12_Witness ==
  /\ subscribers["j1"] = "s2"
  /\ sid["s1"] = "j1"
  /\ Open("s1")
  /\ queue["s1"] # <<>>
  /\ queue["s2"] # <<>>

LastFrame(s) == fwd'[s][Len(fwd'[s])]

\* C13: a step in which a stream sends a keepalive leaves the stream waiting
\* for the next message, and leaves the registry and the queues as they are;
\* a waiting stream stops waiting only by sending a terminal message or the
\* fault frame, or by being closed under a client that went away.
C13_TimeoutKeepsOpen ==
  [][\A s \in Streams :
       /\ (Len(fwd'[s]) > Len(fwd[s]) /\ LastFrame(s) = KeepaliveFrame)
          => /\ spc[s] = "waiting" /\ spc'[s] = "waiting"
             /\ queue[s] = <<>>
             /\ UNCHANGED <<subscribers, queue>>
       /\ (spc[s] = "waiting" /\ spc'[s] = "sent")
          => /\ Len(fwd'[s]) > Len(fwd[s])
             /\ \/ LastFrame(s) = FaultFrame
                \/ IsData(LastFrame(s)) /\ IsTerminal(LastFrame(s).msg)]_vars

\* a stream that sent a keepalive went on to forward a message, and is open
\* and registered
C13_Witness ==
  /\ Open("s1")
  /\ subscribers[sid["s1"]] = "s1"
  /\ \E i, k \in DOMAIN fwd["s1"] :
       i < k /\ fwd["s1"][i] = KeepaliveFrame /\ IsData(fwd["s1"][k])

\* C14 (as claimed): a request with an empty id or without code is answered
\* with a status other than the one of a failed execution, and nothing of an
\* execution has happened for it: no subprocess, no directory, no message.
C14_ClientErrorDistinct ==
  (epc = "failed" /\ err = "client")
  => /\ status # 500
     /\ env.spawn = ""
     /\ ~scratch
     /\ pub = <<>>

OpenStreams == {s \in Streams : Open(s)}

\* C17 (as claimed): active_streams is the number of streams that are open;
\* it grows by one when a stream opens and shrinks by one when one closes.
C17_HealthCountsOpenStreams ==
  /\ [](health_check(subscribers) = Cardinality(OpenStreams))
  /\ [][\A s \in Streams :
          /\ (spc[s] = "idle" /\ spc'[s] = "waiting")
             => health_check(subscribers') = health_check(subscribers) + 1
          /\ (Open(s) /\ spc'[s] = "closed")
             => health_check(subscribers') = health_check(subscribers) - 1]_vars

\* C19 (as claimed): a stream that closes takes out of the registry the
\* queue it registered itself and no other: an id whose registered queue is
\* another stream's keeps it.
C19_CloseRemovesOwnQueue ==
  [][\A s \in Streams :
       (Open(s) /\ spc'[s] = "closed")
       => \A j \in JobIds :
            subscribers[j] # s => subscribers'[j] = subscribers[j]]_vars

\* the rules of the classifier, as conditions on the line that was read
RuleLoaded == Contains(line, "Animation") /\ Contains(line, "Partial")
RuleProgress == ProgressAt(line) # {}
RuleReady == Contains(line, "File ready at")
RuleRendered == Contains(line, "Rendered ArchitectureDiagram")
RulePlayed == Contains(line, "Played")
RuleError == Contains(line, "ERROR") \/ Contains(line, "Exception")

\* "Animation {n} loaded", n the first integer after "Animation "
IsLoadedMsg(m) ==
  /\ AnimAt(line) # {}
  /\ LET i == Min(AnimAt(line))
     IN m = <<"Animation", " ">> \o SubSeq(line, i + 2, DigitRunEnd(line, i + 2))
              \o <<" ", "loaded">>

\* "Animation {n} progress: {p}%", n and p integers of a progress match
IsProgressMsg(m) ==
  \E i \in ProgressAt(line) :
    \E j \in PctAt(line, DigitRunEnd(line, i + 2) + 1) :
      m = <<"Animation", " ">> \o SubSeq(line, i + 2, DigitRunEnd(line, i + 2))
            \o <<" ", "progress", ":", " ">>
            \o SubSeq(line, j, DigitRunEnd(line, j)) \o <<"%">>

\* C18: the message made of a line is the one of the first rule, in the
\* order loaded, progress, ready, rendered, played, error, whose condition
\* the line meets, whatever later rules it meets too; a line with
\* "Animation" and "Partial" but no integer gives nothing, and so does a
\* line that meets no rule.
C18_FirstMatchWins ==
  (epc = "reading" /\ nlines > 0) =>
    /\ (RuleLoaded /\ AnimAt(line) # {}) => IsLoadedMsg(log_message)
    /\ (RuleLoaded /\ AnimAt(line) = {}) => log_message = None
    /\ (~RuleLoaded /\ RuleProgress) => IsProgressMsg(log_message)
    /\ (~RuleLoaded /\ ~RuleProgress /\ RuleReady)
       => log_message = <<"Final video ready!">>
    /\ (~RuleLoaded /\ ~RuleProgress /\ ~RuleReady /\ RuleRendered)
       => log_message = <<"Rendering complete!">>
    /\ (~RuleLoaded /\ ~RuleProgress /\ ~RuleReady /\ ~RuleRendered /\ RulePlayed)
       => log_message = line
    /\ (~RuleLoaded /\ ~RuleProgress /\ ~RuleReady /\ ~RuleRendered /\ ~RulePlayed
          /\ RuleError)
       => log_message = <<"Error occurred">>
    /\ (~RuleLoaded /\ ~RuleProgress /\ ~RuleReady /\ ~RuleRendered /\ ~RulePlayed
          /\ ~RuleError)
       => log_message = None

\* a line of the first rule without an integer, which a later rule would take
C18_Witness ==
  /\ epc = "reading" /\ nlines > 0
  /\ RuleLoaded /\ AnimAt(line) = {}
  /\ RulePlayed
  /\ log_message = None

\* C20 (as claimed): no message that the classifier makes of an output line
\* is the completion sentinel or starts with "error:", so none ends a stream.
C20_ClassifierNotTerminal ==
  (epc = "reading" /\ nlines > 0 /\ log_message # None) => ~IsTerminal(log_message)

Terminals(s) == {i \in DOMAIN Data(s) : IsTerminal(Data(s)[i].msg)}

\* the terminal message of the stage the job has ended in
JobTerminal == IF epc = "returned" THEN CompletedMsg ELSE ErrorMsg(err)

\* C15 (as claimed): when the job starts with the stream registered for its
\* id, the job and the stream being run whenever they can, the job ends and
\* the stream forwards exactly one terminal message, the completion
\* sentinel or the error message of the stage the job ended in, as its last
\* message, and is then closed with its queue unregistered.
C15_StreamEndsWithJobTerminal ==
  (epc = "spawn" /\ pub[1].to = "s1")
  ~> (/\ Ran
      /\ spc["s1"] = "closed"
      /\ subscribers[cid] = NoQueue
      /\ Cardinality(Terminals("s1")) = 1
      /\ Data("s1")[Len(Data("s1"))].msg = JobTerminal)

\* the result of run_and_upload as its inputs decide it: how the subprocess
\* started and exited, whether a video was there, how the upload went
Expected ==
  IF env.spawn = "failed" THEN <<"failed", "spawn", 500>>
  ELSE IF rcode # 0 THEN <<"failed", "exit", 500>>
  ELSE IF ~located THEN <<"failed", "missing", 500>>
  ELSE IF env.upload = "failed" THEN <<"failed", "upload", 500>>
  ELSE <<"returned", "none", 200>>

\* C16: the result of an execution is the one its inputs decide, whatever
\* the streams have done; no step of a stream changes anything of the job;
\* and a job that has started ends, whatever the streams do.
C16_OutcomeIndependentOfStreams ==
  /\ [](Ran => <<epc, err, status>> = Expected)
  /\ [][streamVars' # streamVars => UNCHANGED jobVars]_vars
  /\ (epc \in {"spawn", "reading", "exit"}) ~> Ran

\* the job has returned its URL although the only stream of its id was
\* taken away by a disconnect while the subprocess was running
C16_Witness ==
  /\ epc = "returned"
  /\ spc["s1"] = "closed"
  /\ sid["s1"] = cid
  /\ Terminals("s1") = {}
  /\ pub[Len(pub)].to = NoQueue
  /\ Open("s2")

====
